---------------------------- MODULE Spec2Model ----------------------------
(***************************************************************************)
(* Text analytics of the review corpus (app/analytics/router.py): the      *)
(* normalizer (count_letters, extract_clean_words), the lexicon word       *)
(* frequency counter, the sentiment trend aggregator and the rating versus *)
(* length correlation analyzer.                                            *)
(*                                                                         *)
(* Representation.  A text is a sequence of code points, each code point   *)
(* written as a string ("a", "D", "sup2" for U+00B2, "Idot" for U+0130,    *)
(* "cdot" for U+0307).  A nullable column or parameter is a sequence of    *)
(* length at most one: <<>> is None/NULL and <<v>> is the value v.         *)
(***************************************************************************)
EXTENDS Integers, Sequences, FiniteSets, TLC

VARIABLES
  text,      \* normalizer: the input text (nullable)
  letters,   \* normalizer: result of count_letters(text)
  words,     \* normalizer: result of extract_clean_words(text)
  rewords,   \* normalizer: result of extract_clean_words(" ".join(words))
  npc,       \* normalizer: position of the normalizer run
  db,        \* the reviews table, in primary-key order
  op,        \* the analytics operation being served
  start_date, end_date, top_k, interval,   \* its query parameters
  pc,        \* position of the handler
  reviews,   \* q.all(): the selected rows
  scanned,   \* word_frequency: number of rows the loop has processed
  pos_counter, neg_counter,   \* word_frequency: Counter()s, in insertion order
  pos_hits, neg_hits,         \* word_frequency: sets of review ids
  response,  \* what the handler returned
  users,     \* the users table: the set of stored rows
  next_id,   \* the AUTO_INCREMENT counters of users and reviews
  calls,     \* the requests being served concurrently, one per worker thread
  figs,      \* matplotlib.pyplot's figure registry
  batch      \* run_batch.main: its position, session and counters

normVars == <<text, letters, words, rewords, npc>>
reqVars == <<db, op, start_date, end_date, top_k, interval>>
wfVars == <<scanned, pos_counter, neg_counter, pos_hits, neg_hits>>
sysVars == <<users, next_id, calls, figs, batch>>
vars == <<normVars, reqVars, pc, reviews, wfVars, response, sysVars>>

None == <<>>
Some(v) == <<v>>
IsNone(x) == x = <<>>
Val(x) == x[1]

(***************************************************************************)
(* Code points and their Unicode classes, as Python's re and str see them. *)
(***************************************************************************)
LowercaseLetters ==
  { "a", "b", "c", "d", "e", "f", "g", "h", "i", "j", "k", "l", "m", "n", "o",
    "p", "q", "r", "s", "t", "u", "v", "w", "x", "y", "z" }

\* "D" is U+0044, "Idot" is U+0130 (LATIN CAPITAL LETTER I WITH DOT ABOVE).
UppercaseLetters == { "D", "Idot" }

\* General category L*.
UnicodeLetters == LowercaseLetters \cup UppercaseLetters

\* General category Nd: what \d matches.
DecimalDigits == { "1", "2" }

\* General category No or Nl, such as U+00B2 SUPERSCRIPT TWO: str.isalnum()
\* is true of them (they are numeric), they are not decimal digits.
OtherNumerics == { "sup2" }

\* General category Mn: U+0307 COMBINING DOT ABOVE.
CombiningMarks == { "cdot" }

Whitespace == { " " }

Punctuation == { "!" }

\* \w under re.UNICODE: the code points str.isalnum() accepts, and "_".
IsWordChar(c) == c \in UnicodeLetters \cup DecimalDigits \cup OtherNumerics \/ c = "_"

\* The class [^\W\d_]: a word character that is neither \d nor "_".
IsLetterClass(c) == ~(~IsWordChar(c)) /\ c \notin DecimalDigits /\ c # "_"

\* Python's "not text": None or the empty string.
Falsy(t) == IsNone(t) \/ Val(t) = <<>>

count_letters(t) ==
  IF Falsy(t) THEN 0 ELSE Len(SelectSeq(Val(t), IsLetterClass))

STOPWORDS ==
  {
    <<"t","h","e">>, <<"a","n","d">>, <<"o","r">>, <<"i","s">>, <<"a","r","e">>, <<"a","m">>,
    <<"w","a","s">>, <<"w","e","r","e">>, <<"b","e">>, <<"b","e","e","n">>,
    <<"b","e","i","n","g">>, <<"o","f">>, <<"t","o">>, <<"i","n">>, <<"o","n">>,
    <<"f","o","r">>, <<"w","i","t","h">>, <<"a","t">>, <<"b","y">>, <<"f","r","o","m">>,
    <<"t","h","i","s">>, <<"t","h","a","t">>, <<"t","h","e","s","e">>,
    <<"t","h","o","s","e">>, <<"a">>, <<"a","n">>, <<"i","t">>, <<"i","t","s">>, <<"a","s">>,
    <<"s","o">>, <<"i","f">>, <<"b","u","t">>, <<"v","e","r","y">>,
    <<"r","e","a","l","l","y">>, <<"j","u","s","t">>, <<"a","l","s","o">>, <<"t","o","o">>,
    <<"i">>, <<"w","e">>, <<"y","o","u">>, <<"h","e">>, <<"s","h","e">>, <<"t","h","e","y">>,
    <<"m","e">>, <<"u","s">>, <<"h","i","m">>, <<"h","e","r">>, <<"t","h","e","m">>,
    <<"m","y">>, <<"o","u","r">>, <<"y","o","u","r">>, <<"h","i","s">>,
    <<"t","h","e","i","r">>, <<"h","o","t","e","l">>, <<"r","o","o","m">>,
    <<"r","o","o","m","s">>, <<"p","l","a","c","e">>, <<"s","t","a","y">>,
    <<"s","t","a","y","e","d">>, <<"l","o","c","a","t","i","o","n">>, <<"a","r","e","a">>,
    <<"n","i","g","h","t">>, <<"n","i","g","h","t","s">>, <<"d","a","y">>,
    <<"d","a","y","s">>, <<"d","a","n">>, <<"y","a","n","g">>, <<"d","i">>, <<"k","e">>,
    <<"d","a","r","i">>, <<"i","t","u">>, <<"i","n","i">>, <<"u","n","t","u","k">>,
    <<"d","e","n","g","a","n">>, <<"k","a","m","i">>, <<"k","i","t","a">>,
    <<"s","a","y","a">>, <<"a","k","u">>, <<"d","i","a">>, <<"m","e","r","e","k","a">>,
    <<"p","a","d","a">>, <<"a","d","a">>, <<"t","i","d","a","k">>, <<"b","u","k","a","n">>
  }

POSITIVE_WORDS ==
  {
    <<"e","x","c","e","l","l","e","n","t">>, <<"g","r","e","a","t">>, <<"g","o","o","d">>,
    <<"a","m","a","z","i","n","g">>, <<"c","l","e","a","n">>,
    <<"f","r","i","e","n","d","l","y">>, <<"c","o","m","f","o","r","t","a","b","l","e">>,
    <<"w","o","n","d","e","r","f","u","l">>, <<"p","e","r","f","e","c","t">>,
    <<"n","i","c","e">>, <<"h","e","l","p","f","u","l">>,
    <<"r","e","c","o","m","m","e","n","d">>, <<"l","o","v","e">>, <<"b","e","s","t">>,
    <<"e","n","j","o","y">>, <<"s","p","a","c","i","o","u","s">>,
    <<"l","o","v","e","l","y">>, <<"f","a","n","t","a","s","t","i","c">>,
    <<"a","w","e","s","o","m","e">>
  }

NEGATIVE_WORDS ==
  {
    <<"b","a","d">>, <<"t","e","r","r","i","b","l","e">>, <<"a","w","f","u","l">>,
    <<"d","i","r","t","y">>, <<"r","u","d","e">>, <<"w","o","r","s","t">>,
    <<"b","r","o","k","e","n">>, <<"p","o","o","r">>, <<"n","o","i","s","y">>,
    <<"d","i","s","a","p","p","o","i","n","t","e","d">>,
    <<"u","n","c","o","m","f","o","r","t","a","b","l","e">>, <<"h","a","t","e">>,
    <<"s","l","o","w">>, <<"p","r","o","b","l","e","m">>, <<"i","s","s","u","e">>,
    <<"s","m","e","l","l">>, <<"s","m","e","l","l","y">>,
    <<"h","o","r","r","i","b","l","e">>, <<"d","i","s","g","u","s","t","i","n","g">>
  }


\* str.lower() of one code point; U+0130 lower-cases to "i" + U+0307.
LowerChar(c) ==
  CASE c = "D" -> <<"d">>
    [] c = "Idot" -> <<"i", "cdot">>
    [] OTHER -> <<c>>

RECURSIVE Lower(_)
Lower(s) == IF s = <<>> THEN <<>> ELSE LowerChar(Head(s)) \o Lower(Tail(s))

\* WORD_PATTERN.findall: the maximal runs of word characters from position i
\* on, cur being the run in progress.
RECURSIVE FindAll(_, _, _)
FindAll(s, i, cur) ==
  LET flush == IF cur = <<>> THEN <<>> ELSE <<cur>>
  IN  IF i > Len(s) THEN flush
      ELSE IF IsWordChar(s[i]) THEN FindAll(s, i + 1, Append(cur, s[i]))
      ELSE flush \o FindAll(s, i + 1, <<>>)

WORD_PATTERN(s) == FindAll(s, 1, <<>>)

\* re.search(r"[^\W\d_]", t): some code point of t is in the class.
HasLetterClass(t) == \E i \in 1..Len(t) : IsLetterClass(t[i])

\* The loop body of extract_clean_words: TRUE when t is appended.
KeepToken(t) ==
  /\ HasLetterClass(t)
  /\ ~(Len(t) <= 2)
  /\ t \notin STOPWORDS

\* A loop that starts at the second token.
extract_clean_words_SkipFirst(t) ==
  IF Falsy(t) THEN <<>>
  ELSE LET tokens == WORD_PATTERN(Lower(Val(t)))
       IN  SelectSeq(IF tokens = <<>> THEN <<>> ELSE Tail(tokens), KeepToken)

extract_clean_words(t) ==
  IF Falsy(t) THEN <<>>
  ELSE SelectSeq(WORD_PATTERN(Lower(Val(t))), KeepToken)

(***************************************************************************)
(* The normalizer applied to bounded texts.  A text is a concatenation of  *)
(* at most MaxChunks chunks; the chunks hold every code point class and    *)
(* two whole words, so that stop words and repeated tokens occur.          *)
(***************************************************************************)
MaxChunks == 4

Chunks ==
  { <<"a">>, <<"D">>, <<"1">>, <<"sup2">>, <<"_">>, <<" ">>, <<"!">>, <<"Idot">>,
    <<"d","a","n">>, <<"a","d","d">> }

RECURSIVE TextsOf(_)
TextsOf(n) ==
  IF n = 0 THEN { <<>> }
  ELSE LET shorter == TextsOf(n - 1)
       IN  shorter \cup { s \o c : s \in shorter, c \in Chunks }

NormInputs == { None } \cup { Some(s) : s \in TextsOf(MaxChunks) }

\* " ".join(ws)
RECURSIVE Join(_)
Join(ws) ==
  IF ws = <<>> THEN <<>>
  ELSE IF Len(ws) = 1 THEN ws[1]
  ELSE ws[1] \o <<" ">> \o Join(Tail(ws))

\* Empty users table, no concurrent request, no open figure, no batch run.
SysIdle ==
  /\ users = {}
  /\ next_id = [users |-> 1, reviews |-> 1]
  /\ calls = <<>>
  /\ figs = [open |-> <<>>, rotated |-> {}]
  /\ batch = [pc |-> "idle"]

\* No request is being served.
HandlerIdle ==
  /\ db = <<>>
  /\ op = "none"
  /\ start_date = None
  /\ end_date = None
  /\ top_k = 20
  /\ interval = "monthly"
  /\ pc = "idle"
  /\ reviews = <<>>
  /\ scanned = 0
  /\ pos_counter = <<>>
  /\ neg_counter = <<>>
  /\ pos_hits = {}
  /\ neg_hits = {}
  /\ response = [kind |-> "none"]

NormInit ==
  /\ text \in NormInputs
  /\ letters = 0
  /\ words = <<>>
  /\ rewords = <<>>
  /\ npc = "input"
  /\ HandlerIdle
  /\ SysIdle

CountLetters ==
  /\ npc = "input"
  /\ letters' = count_letters(text)
  /\ npc' = "counted"
  /\ UNCHANGED <<text, words, rewords, reqVars, pc, reviews, wfVars, response, sysVars>>

ExtractCleanWords ==
  /\ npc = "counted"
  /\ words' = extract_clean_words(text)
  /\ npc' = "extracted"
  /\ UNCHANGED <<text, letters, rewords, reqVars, pc, reviews, wfVars, response, sysVars>>

ReExtractCleanWords ==
  /\ npc = "extracted"
  /\ rewords' = extract_clean_words(Some(Join(words)))
  /\ npc' = "done"
  /\ UNCHANGED <<text, letters, words, reqVars, pc, reviews, wfVars, response, sysVars>>

NormNext == CountLetters \/ ExtractCleanWords \/ ReExtractCleanWords

SpecNorm == NormInit /\ [][NormNext]_vars

(***************************************************************************)
(* Claims about the normalizer.                                            *)
(***************************************************************************)
\* The number of code points of s that are Unicode letters (category L).
RECURSIVE UnicodeLetterCount(_)
UnicodeLetterCount(s) ==
  IF s = <<>> THEN 0
  ELSE (IF Head(s) \in UnicodeLetters THEN 1 ELSE 0) + UnicodeLetterCount(Tail(s))

\* C1: count_letters returns the number of Unicode letters of the text:
\* digits, underscores, punctuation, whitespace and symbols contribute 0, and
\* an absent or empty text gives 0.
C1_LetterCountIsUnicodeLetters ==
  npc # "input" =>
    letters = (IF IsNone(text) THEN 0 ELSE UnicodeLetterCount(Val(text)))

ContainsUnicodeLetter(t) == \E i \in 1..Len(t) : t[i] \in UnicodeLetters

\* C2: no token returned by extract_clean_words has length <= 2, is a stop
\* word, or contains no letter.
C2_NoShortStopOrLetterlessToken ==
  npc \in {"extracted", "done"} =>
    \A i \in 1..Len(words) :
      /\ Len(words[i]) > 2
      /\ words[i] \notin STOPWORDS
      /\ ContainsUnicodeLetter(words[i])

PassesThreeFilters(t) ==
  ContainsUnicodeLetter(t) /\ Len(t) > 2 /\ t \notin STOPWORDS

\* C3: the result is exactly the subsequence, in order and with repeats, of
\* the lower-cased text's word tokens that contain a letter, are longer than
\* 2 and are no stop word; an absent or empty text gives the empty sequence.
C3_ExactlyTheFilteredSubsequence ==
  npc \in {"extracted", "done"} =>
    words = (IF IsNone(text) THEN <<>>
             ELSE SelectSeq(WORD_PATTERN(Lower(Val(text))), PassesThreeFilters))

\* C4: extract_clean_words is idempotent: applied to the space-joined output
\* of extract_clean_words(text) it returns that output again.
C4_ExtractIsIdempotent ==
  npc = "done" => rewords = words

\* A mixed-case text with two tokens kept has been cleaned twice.
C4_Witness ==
  /\ npc = "done"
  /\ Len(words) >= 2
  /\ ~IsNone(text)
  /\ Lower(Val(text)) # Val(text)

(***************************************************************************)
(* The reviews table (app/models.py) and the time line.  A DateTime is a   *)
(* number of ticks; a day has TicksPerDay of them, tick 0 being 00:00:00   *)
(* and tick TicksPerDay - 1 being 23:59:59.999999.                         *)
(***************************************************************************)
TicksPerDay == 2

MaxReviews == 2

\* datetime.combine(day, time)
At(day, tod) == day * TicksPerDay + tod

\* datetime.min.time() and datetime.max.time() as ticks of the day.
MinTime == 0
MaxTime == TicksPerDay - 1

\* The day (days since 1970-01-01) of the date y-m-d of the proleptic
\* Gregorian calendar, and back: what date and datetime compute with.
DaysFromCivil(y, m, d) ==
  LET yy == IF m <= 2 THEN y - 1 ELSE y
      era == yy \div 400
      yoe == yy - era * 400
      mp == IF m > 2 THEN m - 3 ELSE m + 9
      doy == (153 * mp + 2) \div 5 + d - 1
      doe == yoe * 365 + yoe \div 4 - yoe \div 100 + doy
  IN  era * 146097 + doe - 719468

CivilFromDays(n) ==
  LET z == n + 719468
      era == z \div 146097
      doe == z - era * 146097
      yoe == (doe - doe \div 1460 + doe \div 36524 - doe \div 146096) \div 365
      doy == doe - (365 * yoe + yoe \div 4 - yoe \div 100)
      mp == (5 * doy + 2) \div 153
      d == doy - (153 * mp + 2) \div 5 + 1
      m == IF mp < 10 THEN mp + 3 ELSE mp - 9
  IN  [year |-> (yoe + era * 400) + (IF m <= 2 THEN 1 ELSE 0), month |-> m, day |-> d]

\* date.weekday(): Monday is 0.
Weekday(n) == (n + 3) % 7

\* The day a DateTime falls on.
DayOf(ts) == ts \div TicksPerDay

\* Review rows: every column but the key is nullable.
Review(id, txt, rating, date, polarity) ==
  [id |-> id, text |-> txt, rating |-> rating, review_date |-> date,
   polarity |-> polarity]

\* The tables of n rows over the given column values, keys 1..n in
\* insertion order.
Tables(n, texts, ratings, dates, polarities) ==
  { [k \in 1..n |-> Review(k, f[k][1], f[k][2], f[k][3], f[k][4])] :
      f \in [1..n -> texts \X ratings \X dates \X polarities] }

\* SQL comparisons with a NULL operand are not true.
DateGE(r, bound) == ~IsNone(r.review_date) /\ Val(r.review_date) >= bound
DateLE(r, bound) == ~IsNone(r.review_date) /\ Val(r.review_date) <= bound

(***************************************************************************)
(* word_frequency                                                          *)
(***************************************************************************)
\* The WHERE clause of word_frequency: start_date and end_date are datetimes.
WFSelect_AnyText(r) ==
  /\ (IsNone(start_date) \/ DateGE(r, Val(start_date)))
  /\ (IsNone(end_date) \/ DateLE(r, Val(end_date)))

WFSelect(r) ==
  /\ ~IsNone(r.text)
  /\ (IsNone(start_date) \/ DateGE(r, Val(start_date)))
  /\ (IsNone(end_date) \/ DateLE(r, Val(end_date)))

\* Counter.update([w]) on a Counter kept as its (word, count) items in
\* insertion order.
CounterUpdate_SetOne(c, w) ==
  IF \E k \in 1..Len(c) : c[k].word = w
    THEN [k \in 1..Len(c) |-> IF c[k].word = w THEN [c[k] EXCEPT !.count = 1] ELSE c[k]]
    ELSE Append(c, [word |-> w, count |-> 1])

CounterUpdate(c, w) ==
  IF \E k \in 1..Len(c) : c[k].word = w
    THEN [k \in 1..Len(c) |-> IF c[k].word = w THEN [c[k] EXCEPT !.count = @ + 1] ELSE c[k]]
    ELSE Append(c, [word |-> w, count |-> 1])

\* The loop over the words of one review: the two Counters and the two
\* found_* flags after it.
RECURSIVE ScanWords(_, _)
ScanWords(ws, acc) ==
  IF ws = <<>> THEN acc
  ELSE LET w == Head(ws)
           isPos == w \in POSITIVE_WORDS
           isNeg == w \in NEGATIVE_WORDS
       IN  ScanWords(Tail(ws),
             [pos |-> IF isPos THEN CounterUpdate(acc.pos, w) ELSE acc.pos,
              neg |-> IF isNeg THEN CounterUpdate(acc.neg, w) ELSE acc.neg,
              found_pos |-> acc.found_pos \/ isPos,
              found_neg |-> acc.found_neg \/ isNeg])

\* sorted(items, key=count, reverse=True), which is stable: item x goes
\* behind every item of s whose count is at least its own.
RECURSIVE InsertByCount(_, _)
InsertByCount(s, x) ==
  IF s = <<>> THEN <<x>>
  ELSE IF Head(s).count >= x.count THEN <<Head(s)>> \o InsertByCount(Tail(s), x)
  ELSE <<x>> \o s

RECURSIVE SortByCount(_, _)
SortByCount(items, sorted) ==
  IF items = <<>> THEN sorted
  ELSE SortByCount(Tail(items), InsertByCount(sorted, Head(items)))

Min(a, b) == IF a <= b THEN a ELSE b

\* Ties listed last-inserted first.
RECURSIVE InsertByCount_TiesReversed(_, _)
InsertByCount_TiesReversed(s, x) ==
  IF s = <<>> THEN <<x>>
  ELSE IF Head(s).count > x.count
    THEN <<Head(s)>> \o InsertByCount_TiesReversed(Tail(s), x)
  ELSE <<x>> \o s

RECURSIVE SortByCount_TiesReversed(_, _)
SortByCount_TiesReversed(items, sorted) ==
  IF items = <<>> THEN sorted
  ELSE SortByCount_TiesReversed(Tail(items), InsertByCount_TiesReversed(sorted, Head(items)))

most_common_TiesReversed(c, n) ==
  SubSeq(SortByCount_TiesReversed(c, <<>>), 1, Min(n, Len(c)))

\* Counter.most_common(n): heapq.nlargest(n, items, key=count), the first n
\* of the stable descending sort.
most_common(c, n) == SubSeq(SortByCount(c, <<>>), 1, Min(n, Len(c)))

WFQuery ==
  /\ op = "word_frequency"
  /\ pc = "idle"
  /\ reviews' = SelectSeq(db, WFSelect)
  /\ scanned' = 0
  /\ pos_counter' = <<>>
  /\ neg_counter' = <<>>
  /\ pos_hits' = {}
  /\ neg_hits' = {}
  /\ pc' = "scanning"
  /\ UNCHANGED <<sysVars, normVars, reqVars, response>>

\* One iteration of "for r in reviews".
WFScanReview ==
  /\ op = "word_frequency"
  /\ pc = "scanning"
  /\ scanned < Len(reviews)
  /\ LET r == reviews[scanned + 1]
         ws == extract_clean_words(IF IsNone(r.text) THEN Some(<<>>) ELSE r.text)
         after == ScanWords(ws, [pos |-> pos_counter, neg |-> neg_counter,
                                 found_pos |-> FALSE, found_neg |-> FALSE])
     IN  IF ws = <<>>
           THEN UNCHANGED <<pos_counter, neg_counter, pos_hits, neg_hits>>
           ELSE /\ pos_counter' = after.pos
                /\ neg_counter' = after.neg
                /\ pos_hits' = IF after.found_pos THEN pos_hits \cup {r.id} ELSE pos_hits
                /\ neg_hits' = IF after.found_neg THEN neg_hits \cup {r.id} ELSE neg_hits
  /\ scanned' = scanned + 1
  /\ UNCHANGED <<sysVars, normVars, reqVars, pc, reviews, response>>

WFReturn ==
  /\ op = "word_frequency"
  /\ pc = "scanning"
  /\ scanned = Len(reviews)
  /\ response' =
       [kind |-> "word_frequency",
        total_reviews_scanned |-> Len(reviews),
        reviews_with_positive_words |-> Cardinality(pos_hits),
        reviews_with_negative_words |-> Cardinality(neg_hits),
        top_k |-> top_k,
        positive_top_words |-> most_common(pos_counter, top_k),
        negative_top_words |-> most_common(neg_counter, top_k)]
  /\ pc' = "done"
  /\ UNCHANGED <<sysVars, normVars, reqVars, reviews, wfVars>>

\* No normalizer run is in progress.
NormIdle ==
  /\ text = None
  /\ letters = 0
  /\ words = <<>>
  /\ rewords = <<>>
  /\ npc = "idle"

\* top_k is validated to 1..100 (Query(ge=1, le=100)); the model asks for
\* 1..MaxTopK.
MaxTopK == 2

WFTexts ==
  { None,
    Some(<<>>),
    Some(<<"g","o","o","d"," ","g","o","o","d">>),
    Some(<<"n","i","c","e"," ","g","o","o","d">>),
    Some(<<"b","a","D"," ","p","o","o","r"," ","n","i","c","e">>),
    Some(<<"t","h","e"," ","1","2","!">>) }

WFDates == { None, Some(At(DaysFromCivil(2014, 12, 31), MinTime)) }

WFInit ==
  /\ NormIdle
  /\ SysIdle
  /\ \E n \in 0..MaxReviews : db \in Tables(n, WFTexts, {None}, WFDates, {None})
  /\ op = "word_frequency"
  /\ start_date \in { None, Some(At(DaysFromCivil(2014, 12, 31), MaxTime)) }
  /\ end_date \in { None, Some(At(DaysFromCivil(2014, 12, 31), MinTime)) }
  /\ top_k \in 1..MaxTopK
  /\ interval = "monthly"
  /\ pc = "idle"
  /\ reviews = <<>>
  /\ scanned = 0
  /\ pos_counter = <<>>
  /\ neg_counter = <<>>
  /\ pos_hits = {}
  /\ neg_hits = {}
  /\ response = [kind |-> "none"]

WFNext == WFQuery \/ WFScanReview \/ WFReturn

SpecWF == WFInit /\ [][WFNext]_vars

(***************************************************************************)
(* Claims about word_frequency.                                            *)
(***************************************************************************)
\* The cleaned tokens of the k-th selected review.
TokensOfReview(k) == extract_clean_words(reviews[k].text)

\* The cleaned tokens of the first n selected reviews, one sequence each.
RECURSIVE TokenLists(_)
TokenLists(n) == IF n = 0 THEN <<>> ELSE Append(TokenLists(n - 1), TokensOfReview(n))

\* How often w occurs in the token sequence ws.
Occurrences(w, ws) == Cardinality({ j \in 1..Len(ws) : ws[j] = w })

\* Occurrences of w in the token sequences toks.
RECURSIVE OccurrencesIn(_, _)
OccurrencesIn(w, toks) ==
  IF toks = <<>> THEN 0
  ELSE Occurrences(w, Head(toks)) + OccurrencesIn(w, Tail(toks))

\* The count a Counter holds for w (0 when w is no key).
CountIn(c, w) ==
  IF \E k \in 1..Len(c) : c[k].word = w
    THEN (CHOOSE x \in { c[k] : k \in 1..Len(c) } : x.word = w).count
    ELSE 0

HasTokenIn(ws, lexicon) == \E j \in 1..Len(ws) : ws[j] \in lexicon

\* C5: a lexicon word occurring n times in a review's cleaned tokens adds n
\* to its occurrence count, and a review adds at most 1 to a reviews_with_*
\* tally: after any number of scanned reviews each count is the sum of the
\* word's occurrences in them, and the tallies are the distinct reviews with
\* at least one positive (negative) token.
C5_OccurrencesSummedReviewsCountedOnce ==
  (op = "word_frequency" /\ pc \in {"scanning", "done"}) =>
    LET toks == TokenLists(scanned)
        with(lexicon) == { k \in 1..scanned : HasTokenIn(toks[k], lexicon) }
    IN  /\ \A w \in POSITIVE_WORDS : CountIn(pos_counter, w) = OccurrencesIn(w, toks)
        /\ \A w \in NEGATIVE_WORDS : CountIn(neg_counter, w) = OccurrencesIn(w, toks)
        /\ pos_hits = { reviews[k].id : k \in with(POSITIVE_WORDS) }
        /\ neg_hits = { reviews[k].id : k \in with(NEGATIVE_WORDS) }
        /\ pc = "done" =>
             /\ scanned = Len(reviews)
             /\ response.reviews_with_positive_words = Cardinality(with(POSITIVE_WORDS))
             /\ response.reviews_with_negative_words = Cardinality(with(NEGATIVE_WORDS))

\* Two reviews were scanned, one of them holding the same positive word
\* twice, and the word frequency has been returned.
C5_Witness ==
  /\ op = "word_frequency"
  /\ pc = "done"
  /\ Len(reviews) >= 2
  /\ \E k \in 1..Len(reviews) :
       Occurrences(<<"g","o","o","d">>, TokensOfReview(k)) >= 2
  /\ response.reviews_with_positive_words < CountIn(pos_counter, <<"g","o","o","d">>)

\* The rows of the table inside the requested date range.
InDateRange(r) ==
  /\ (IsNone(start_date) \/ DateGE(r, Val(start_date)))
  /\ (IsNone(end_date) \/ DateLE(r, Val(end_date)))

\* An iteration over a review whose text yields no token.
ScansTokenlessReview ==
  /\ op = "word_frequency"
  /\ pc = "scanning"
  /\ scanned < Len(reviews)
  /\ scanned' = scanned + 1
  /\ TokensOfReview(scanned + 1) = <<>>

\* C6: total_reviews_scanned is the number of reviews of the date-filtered
\* collection whose text is not absent; a review whose text yields no token
\* is in that number and changes no occurrence count and no tally.
C6_ScannedTotalCountsTextRows ==
  /\ [][ScansTokenlessReview =>
          UNCHANGED <<pos_counter, neg_counter, pos_hits, neg_hits>>]_vars
  /\ []((op = "word_frequency" /\ pc = "done") =>
          response.total_reviews_scanned =
            Cardinality({ k \in 1..Len(db) :
                            ~IsNone(db[k].text) /\ InDateRange(db[k]) }))

\* A table with a review of absent text and a review whose non-empty text
\* has no token was scanned: the absent text is the one row not counted.
C6_Witness ==
  /\ op = "word_frequency"
  /\ pc = "done"
  /\ \E k \in 1..Len(db) : IsNone(db[k].text) /\ InDateRange(db[k])
  /\ \E k \in 1..Len(reviews) :
       reviews[k].text # Some(<<>>) /\ TokensOfReview(k) = <<>>
  /\ response.total_reviews_scanned = Len(db) - 1
  /\ response.total_reviews_scanned >= 1

\* The token sequences toks as one sequence.
RECURSIVE Concat(_)
Concat(toks) == IF toks = <<>> THEN <<>> ELSE Head(toks) \o Concat(Tail(toks))

\* Position of the first occurrence of w in the token sequence all.
FirstSeen(w, all) ==
  CHOOSE j \in 1..Len(all) : all[j] = w /\ \A h \in 1..(j - 1) : all[h] # w

\* top is the top-k list of the lexicon's words as counted over the scan.
IsTopK(top, lexicon, k) ==
  LET toks == TokenLists(Len(reviews))
      all == Concat(toks)
      counted == { w \in lexicon : \E j \in 1..Len(all) : all[j] = w }
      total(w) == Occurrences(w, all)
      listed == { top[p].word : p \in 1..Len(top) }
  IN  /\ Len(top) = Min(k, Cardinality(counted))
      /\ listed \subseteq counted
      /\ Cardinality(listed) = Len(top)
      /\ \A p \in 1..Len(top) : top[p].count = total(top[p].word)
      /\ \A p, q \in 1..Len(top) :
           p < q =>
             \/ top[p].count > top[q].count
             \/ /\ top[p].count = top[q].count
                /\ FirstSeen(top[p].word, all) < FirstSeen(top[q].word, all)
      /\ \A w \in counted \ listed : \A v \in listed :
           \/ total(w) < total(v)
           \/ total(w) = total(v) /\ FirstSeen(v, all) < FirstSeen(w, all)

\* C7: positive_top_words and negative_top_words hold min(K, number of
\* distinct counted words) entries in non-increasing order of count, no
\* omitted word has a higher count than a listed one, and among equal counts
\* the word met first in the scan is listed, and selected, first.
C7_TopWordsRankedTiesByFirstSeen ==
  (op = "word_frequency" /\ pc = "done") =>
    /\ IsTopK(response.positive_top_words, POSITIVE_WORDS, top_k)
    /\ IsTopK(response.negative_top_words, NEGATIVE_WORDS, top_k)

\* Two positive words tie and only one of them fits in the list.
C7_Witness ==
  /\ op = "word_frequency"
  /\ pc = "done"
  /\ Len(pos_counter) = 2
  /\ pos_counter[1].count = pos_counter[2].count
  /\ top_k = 1
  /\ Len(response.positive_top_words) = 1

(***************************************************************************)
(* sentiment_trend.  A polarity is a number of tenths; a mean is the exact *)
(* fraction num/den of tenths in lowest terms.                             *)
(***************************************************************************)
\* The WHERE clause shared by sentiment_trend and the correlation handlers:
\* start_date and end_date are dates.
InDays(r) ==
  /\ (IsNone(start_date) \/ DateGE(r, At(Val(start_date), MinTime)))
  /\ (IsNone(end_date) \/ DateLE(r, At(Val(end_date), MaxTime)))

TrendSelect(r) ==
  /\ ~IsNone(r.polarity)
  /\ ~IsNone(r.review_date)
  /\ InDays(r)

\* Weeks numbered within the year (strftime "%Y-%W"): the week of a day is
\* cut at 1 January.
BucketStart_WeekOfYear(day, granularity) ==
  LET c == CivilFromDays(day)
      monday == day - ((day + 3) % 7)
      newyear == DaysFromCivil(c.year, 1, 1)
  IN  IF granularity = "daily" THEN day
      ELSE IF granularity = "weekly" THEN (IF monday < newyear THEN newyear ELSE monday)
      ELSE DaysFromCivil(c.year, c.month, 1)

\* The first day of the period a day is grouped under: its own date for
\* "daily", the Monday of its week (Period W-SUN) for "weekly", the first of
\* its month (Period M) for anything else.
BucketStart(day, granularity) ==
  IF granularity = "daily" THEN day
  ELSE IF granularity = "weekly" THEN day - Weekday(day)
  ELSE LET c == CivilFromDays(day) IN DaysFromCivil(c.year, c.month, 1)

\* str() of the group key.
BucketLabel(start, granularity) ==
  LET c == CivilFromDays(start)
      e == CivilFromDays(start + 6)
  IN  IF granularity = "daily" THEN <<c.year, c.month, c.day>>
      ELSE IF granularity = "weekly"
        THEN <<c.year, c.month, c.day, e.year, e.month, e.day>>
      ELSE <<c.year, c.month>>

RECURSIVE GCD(_, _)
GCD(a, b) == IF b = 0 THEN a ELSE GCD(b, a % b)

Abs(x) == IF x < 0 THEN -x ELSE x

\* sum / count, exactly.
Mean(sum, count) ==
  LET g == GCD(Abs(sum), count)
  IN  [num |-> sum \div g, den |-> count \div g]

RECURSIVE SumOf(_)
SumOf(xs) == IF xs = <<>> THEN 0 ELSE Head(xs) + SumOf(Tail(xs))

\* The elements of a set of numbers in increasing order.
RECURSIVE Sorted(_)
Sorted(S) ==
  IF S = {} THEN <<>>
  ELSE LET least == CHOOSE x \in S : \A y \in S : x <= y
       IN  <<least>> \o Sorted(S \ {least})

\* The group keys in order of first appearance.
RECURSIVE FirstAppearance(_)
FirstAppearance(keys) ==
  IF keys = <<>> THEN <<>>
  ELSE LET front == FirstAppearance(SubSeq(keys, 1, Len(keys) - 1))
           last == keys[Len(keys)]
       IN  IF \E k \in 1..Len(front) : front[k] = last THEN front ELSE Append(front, last)

\* One row of the grouped frame: the mean polarity of the rows of rs whose
\* key is start.
GroupRow(rs, start, granularity) ==
  LET members == SelectSeq(rs, LAMBDA r : BucketStart(DayOf(Val(r.review_date)), granularity) = start)
      values == [k \in 1..Len(members) |-> Val(members[k].polarity)]
  IN  [bucket |-> start,
       label |-> BucketLabel(start, granularity),
       polarity |-> Mean(SumOf(values), Len(values))]

\* groupby(..., sort=False): groups in order of first appearance.
GroupBy_Unsorted(rs, granularity) ==
  LET keys == FirstAppearance([k \in 1..Len(rs) |->
                 BucketStart(DayOf(Val(rs[k].review_date)), granularity)])
  IN  [k \in 1..Len(keys) |-> GroupRow(rs, keys[k], granularity)]

\* The group mean taken over the whole frame.
GroupMean_WholeFrame(rs, granularity) ==
  LET keys == Sorted({ BucketStart(DayOf(Val(rs[k].review_date)), granularity) :
                         k \in 1..Len(rs) })
      values == [k \in 1..Len(rs) |-> Val(rs[k].polarity)]
  IN  [k \in 1..Len(keys) |->
         [bucket |-> keys[k],
          label |-> BucketLabel(keys[k], granularity),
          polarity |-> Mean(SumOf(values), Len(values))]]

\* df.groupby(key).mean(numeric_only=True): one row per key, keys sorted.
GroupBy(rs, granularity) ==
  LET keys == Sorted({ BucketStart(DayOf(Val(rs[k].review_date)), granularity) :
                         k \in 1..Len(rs) })
  IN  [k \in 1..Len(keys) |-> GroupRow(rs, keys[k], granularity)]

\* The handler without its "if not reviews" return.
TrendResponse_NoEmptyCheck(rs) ==
  [kind |-> "png", series |-> GroupBy(rs, interval)]

\* The handler validating interval against its documented values.
TrendResponse_RejectUnknown(rs) ==
  IF rs = <<>>
    THEN [kind |-> "error", error |-> "Tidak ada data pada rentang ini."]
    ELSE IF interval \notin {"daily", "weekly", "monthly"}
      THEN [kind |-> "exception", exception |-> "ValueError"]
    ELSE [kind |-> "png", series |-> GroupBy(rs, interval)]

\* What sentiment_trend returns for the selected rows rs: the error value,
\* or the PNG of the plotted series.
TrendResponse(rs) ==
  IF rs = <<>>
    THEN [kind |-> "error", error |-> "Tidak ada data pada rentang ini."]
    ELSE [kind |-> "png", series |-> GroupBy(rs, interval)]

SentimentTrend ==
  /\ op = "sentiment_trend"
  /\ pc = "idle"
  /\ reviews' = SelectSeq(db, TrendSelect)
  /\ response' = TrendResponse(reviews')
  /\ pc' = "done"
  /\ UNCHANGED <<sysVars, normVars, reqVars, wfVars>>

(***************************************************************************)
(* rating_length_correlation and rating_length_correlation_plot            *)
(***************************************************************************)
CorrSelect(r) ==
  /\ ~IsNone(r.rating)
  /\ ~IsNone(r.text)
  /\ Val(r.text) # <<>>
  /\ InDays(r)

\* Records over the rows rated 1..5 only.
Records_InRangeOnly(rs) ==
  LET kept == SelectSeq(rs, LAMBDA r : Val(r.rating) \in 1..5)
  IN  [k \in 1..Len(kept) |->
         [rating |-> Val(kept[k].rating), length |-> count_letters(kept[k].text)]]

\* records = [(r.rating, count_letters(r.text)) for r in reviews]
Records(rs) ==
  [k \in 1..Len(rs) |-> [rating |-> Val(rs[k].rating), length |-> count_letters(rs[k].text)]]

\* scipy.stats.pearsonr(x, y).  Fewer than two observations raise
\* ValueError; a constant x or y gives (nan, nan); otherwise
\* r = sxy / sqrt(sxx * syy) with the sums of products below (scaled by n),
\* and p is exactly 1 for two observations.
pearsonr(x, y) ==
  LET n == Len(x)
      xy == [k \in 1..n |-> x[k] * y[k]]
      xx == [k \in 1..n |-> x[k] * x[k]]
      yy == [k \in 1..n |-> y[k] * y[k]]
      sxy == n * SumOf(xy) - SumOf(x) * SumOf(y)
      sxx == n * SumOf(xx) - SumOf(x) * SumOf(x)
      syy == n * SumOf(yy) - SumOf(y) * SumOf(y)
  IN  IF n < 2 THEN [raises |-> "ValueError"]
      ELSE IF sxx = 0 \/ syy = 0
        THEN [raises |-> "", r |-> [nan |-> TRUE], p |-> "nan"]
      ELSE [raises |-> "",
            r |-> [nan |-> FALSE, sxy |-> sxy, sxx |-> sxx, syy |-> syy],
            p |-> IF n = 2 THEN "1.0" ELSE "computed"]

\* avg_length_per_rating: for each rating 1..5 the mean length of the
\* records with that rating, or None.
AvgLengthPerRating(recs) ==
  [rating \in 1..5 |->
     LET subset == SelectSeq(recs, LAMBDA rec : rec.rating = rating)
         lens == [k \in 1..Len(subset) |-> subset[k].length]
     IN  IF subset = <<>> THEN None ELSE Some(Mean(SumOf(lens), Len(lens)))]

CorrResponse(rs) ==
  IF rs = <<>>
    THEN [kind |-> "error", error |-> "Tidak ada review dalam rentang ini."]
    ELSE LET recs == Records(rs)
             ratings == [k \in 1..Len(recs) |-> recs[k].rating]
             lengths == [k \in 1..Len(recs) |-> recs[k].length]
             stat == pearsonr(ratings, lengths)
         IN  IF stat.raises # ""
               THEN [kind |-> "exception", exception |-> stat.raises]
               ELSE [kind |-> "stats",
                     avg_length_per_rating |-> AvgLengthPerRating(recs),
                     pearson_r |-> stat.r,
                     p_value |-> stat.p]

PlotResponse(rs) ==
  IF rs = <<>>
    THEN [kind |-> "error", error |-> "Tidak ada review dalam rentang ini."]
    ELSE LET recs == Records(rs)
             ratings == [k \in 1..Len(recs) |-> recs[k].rating]
             lengths == [k \in 1..Len(recs) |-> recs[k].length]
             stat == pearsonr(ratings, lengths)
         IN  IF stat.raises # ""
               THEN [kind |-> "exception", exception |-> stat.raises]
               ELSE [kind |-> "png", points |-> recs, pearson_r |-> stat.r]

RatingLengthCorrelation ==
  /\ op = "rating_length_correlation"
  /\ pc = "idle"
  /\ reviews' = SelectSeq(db, CorrSelect)
  /\ response' = CorrResponse(reviews')
  /\ pc' = "done"
  /\ UNCHANGED <<sysVars, normVars, reqVars, wfVars>>

RatingLengthCorrelationPlot ==
  /\ op = "rating_length_correlation_plot"
  /\ pc = "idle"
  /\ reviews' = SelectSeq(db, CorrSelect)
  /\ response' = PlotResponse(reviews')
  /\ pc' = "done"
  /\ UNCHANGED <<sysVars, normVars, reqVars, wfVars>>

(***************************************************************************)
(* The three statistics handlers over bounded tables.  The review dates    *)
(* are two instants of Wednesday 2014-12-31, Thursday 2015-01-01 (same     *)
(* week, next month and year) and Monday 2015-01-05 (same month, next      *)
(* week).                                                                  *)
(***************************************************************************)
Dec31 == DaysFromCivil(2014, 12, 31)
Jan01 == DaysFromCivil(2015, 1, 1)
Jan05 == DaysFromCivil(2015, 1, 5)

TrendDates ==
  { None, Some(At(Dec31, MinTime)), Some(At(Dec31, MaxTime)), Some(At(Jan01, MinTime)),
    Some(At(Jan05, MinTime)) }

\* 0.2 and 0.8, in tenths.
TrendPolarities == { None, Some(2), Some(8) }

CorrTexts == { None, Some(<<>>), Some(<<"n","i","c","e">>), Some(<<"b","a","d"," ","1","2">>) }

CorrRatings == { None, Some(1), Some(5), Some(6) }

CorrDates == { None, Some(At(Jan01, MinTime)) }

\* (start_date, end_date) of a request.
DateRanges == { <<None, None>>, <<Some(Jan01), Some(Jan01)>>, <<None, Some(Dec31)>> }

StatsInit ==
  /\ NormIdle
  /\ SysIdle
  /\ \/ /\ op = "sentiment_trend"
        /\ \E n \in 0..MaxReviews : db \in Tables(n, {None}, {None}, TrendDates, TrendPolarities)
        /\ interval \in {"daily", "weekly", "monthly", "yearly"}
     \/ /\ op \in {"rating_length_correlation", "rating_length_correlation_plot"}
        /\ \E n \in 0..MaxReviews : db \in Tables(n, CorrTexts, CorrRatings, CorrDates, {None})
        /\ interval = "monthly"
  /\ \E range \in DateRanges : start_date = range[1] /\ end_date = range[2]
  /\ top_k = 20
  /\ pc = "idle"
  /\ reviews = <<>>
  /\ scanned = 0
  /\ pos_counter = <<>>
  /\ neg_counter = <<>>
  /\ pos_hits = {}
  /\ neg_hits = {}
  /\ response = [kind |-> "none"]

StatsNext == SentimentTrend \/ RatingLengthCorrelation \/ RatingLengthCorrelationPlot

SpecStats == StatsInit /\ [][StatsNext]_vars

(***************************************************************************)
(* Claims about sentiment_trend and the empty selection.                   *)
(***************************************************************************)
\* The first day after the bucket that starts on day start.
BucketEnd(start, granularity) ==
  LET c == CivilFromDays(start)
  IN  IF granularity = "daily" THEN start + 1
      ELSE IF granularity = "weekly" THEN start + 7
      ELSE IF c.month = 12 THEN DaysFromCivil(c.year + 1, 1, 1)
      ELSE DaysFromCivil(c.year, c.month + 1, 1)

\* A day, a Monday or a first of the month.
IsBucketStart(start, granularity) ==
  IF granularity = "daily" THEN TRUE
  ELSE IF granularity = "weekly" THEN Weekday(start) = 0
  ELSE CivilFromDays(start).day = 1

\* The instant ts falls in the bucket that starts on day start.
InBucket(ts, start, granularity) ==
  At(start, MinTime) <= ts /\ ts < At(BucketEnd(start, granularity), MinTime)

TrendPlotted ==
  /\ op = "sentiment_trend"
  /\ pc = "done"
  /\ response.kind = "png"
  /\ interval \in {"daily", "weekly", "monthly"}

\* C8: the series has exactly one entry per bucket that holds a filtered
\* review, none for a bucket without one, and its entries are in
\* chronological order of bucket start.
C8_OneEntryPerBucketChronological ==
  TrendPlotted =>
    LET series == response.series
        stamp(k) == Val(reviews[k].review_date)
    IN  /\ \A p \in 1..Len(series) : IsBucketStart(series[p].bucket, interval)
        /\ \A p, q \in 1..Len(series) : p < q => series[p].bucket < series[q].bucket
        /\ \A p \in 1..Len(series) :
             \E k \in 1..Len(reviews) : InBucket(stamp(k), series[p].bucket, interval)
        /\ \A k \in 1..Len(reviews) :
             Cardinality({ p \in 1..Len(series) :
                             InBucket(stamp(k), series[p].bucket, interval) }) = 1

\* Two reviews stored latest first fall in two weeks, months or days.
C8_Witness ==
  /\ TrendPlotted
  /\ Len(reviews) = 2
  /\ Val(reviews[1].review_date) > Val(reviews[2].review_date)
  /\ Len(response.series) = 2

\* The sum of f over the finite set S.
RECURSIVE SumOver(_, _)
SumOver(S, f) ==
  IF S = {} THEN 0
  ELSE LET x == CHOOSE y \in S : TRUE IN f[x] + SumOver(S \ {x}, f)

\* C9: the value of a bucket is the arithmetic mean of the polarities of
\* exactly the reviews whose timestamp falls in it (value * count = sum); a
\* bucket of one review has that review's polarity, and two same-day reviews
\* of polarity 0.2 and 0.8 give a daily value of 0.5.
C9_BucketValueIsMeanOfItsReviews ==
  TrendPlotted =>
    LET series == response.series
        pol == [k \in 1..Len(reviews) |-> Val(reviews[k].polarity)]
        members(p) == { k \in 1..Len(reviews) :
                          InBucket(Val(reviews[k].review_date), series[p].bucket, interval) }
    IN  /\ \A p \in 1..Len(series) :
             /\ series[p].polarity.den > 0
             /\ series[p].polarity.num * Cardinality(members(p)) =
                  series[p].polarity.den * SumOver(members(p), pol)
             /\ \A k \in 1..Len(reviews) :
                  members(p) = {k} => series[p].polarity = [num |-> pol[k], den |-> 1]
        /\ ( /\ interval = "daily"
             /\ Len(reviews) = 2
             /\ DayOf(Val(reviews[1].review_date)) = DayOf(Val(reviews[2].review_date))
             /\ {pol[1], pol[2]} = {2, 8} )
           => /\ Len(series) = 1
              /\ series[1].polarity = [num |-> 5, den |-> 1]

\* Two reviews of the same day with polarities 0.2 and 0.8 were averaged by
\* day.
C9_Witness ==
  /\ TrendPlotted
  /\ interval = "daily"
  /\ Len(reviews) = 2
  /\ Val(reviews[1].polarity) = 2
  /\ Val(reviews[2].polarity) = 8
  /\ Val(reviews[1].review_date) # Val(reviews[2].review_date)
  /\ Len(response.series) = 1
  /\ response.series[1].polarity = [num |-> 5, den |-> 1]

\* The rows of the table the operation's filters keep.
FilteredRows ==
  { k \in 1..Len(db) :
      /\ (IsNone(start_date) \/
            (~IsNone(db[k].review_date) /\ Val(db[k].review_date) >= At(Val(start_date), MinTime)))
      /\ (IsNone(end_date) \/
            (~IsNone(db[k].review_date) /\ Val(db[k].review_date) <= At(Val(end_date), MaxTime)))
      /\ IF op = "sentiment_trend"
           THEN ~IsNone(db[k].polarity) /\ ~IsNone(db[k].review_date)
           ELSE ~IsNone(db[k].rating) /\ ~IsNone(db[k].text) /\ db[k].text # Some(<<>>) }

\* C10: sentiment_trend, rating_length_correlation and its plot return the
\* no-data error value, and nothing else, when the filtered collection is
\* empty: no series, no table, no exception.
C10_EmptySelectionReportsNoData ==
  ( /\ op \in {"sentiment_trend", "rating_length_correlation",
               "rating_length_correlation_plot"}
    /\ pc = "done"
    /\ FilteredRows = {} )
  => /\ response.kind = "error"
     /\ DOMAIN response = {"kind", "error"}
     /\ response.error = (IF op = "sentiment_trend"
                            THEN "Tidak ada data pada rentang ini."
                            ELSE "Tidak ada review dalam rentang ini.")

\* A table whose rows all fall outside the requested dates was queried for
\* the trend.
C10_Witness ==
  /\ op = "sentiment_trend"
  /\ pc = "done"
  /\ \E k \in 1..Len(db) : ~IsNone(db[k].polarity) /\ ~IsNone(db[k].review_date)
  /\ FilteredRows = {}
  /\ response.kind = "error"

(***************************************************************************)
(* Claims about the rating versus length correlation.                      *)
(***************************************************************************)
\* The rating and the letter count of row k of the table.
RatingOf == [k \in 1..Len(db) |-> IF IsNone(db[k].rating) THEN 0 ELSE Val(db[k].rating)]

LengthOf == [k \in 1..Len(db) |-> count_letters(db[k].text)]

\* The paired sample of the filtered rows has fewer than two observations,
\* or no variance in the ratings or in the letter counts.
Degenerate ==
  \/ Cardinality(FilteredRows) < 2
  \/ \A i, j \in FilteredRows : RatingOf[i] = RatingOf[j]
  \/ \A i, j \in FilteredRows : LengthOf[i] = LengthOf[j]

\* C11: for a non-empty degenerate sample rating_length_correlation (and its
\* plot) returns an explicit "undefined" outcome: no exception, no NaN as
\* pearson_r or p_value, no numeric correlation.
C11_DegenerateSampleReportedUndefined ==
  ( /\ op \in {"rating_length_correlation", "rating_length_correlation_plot"}
    /\ pc = "done"
    /\ FilteredRows # {}
    /\ Degenerate )
  => response.kind = "undefined"

\* The Pearson coefficient of the whole filtered sample, as the sums of
\* products scaled by the number of observations.
FullSamplePearson ==
  LET S == FilteredRows
      n == Cardinality(S)
      sx == SumOver(S, RatingOf)
      sy == SumOver(S, LengthOf)
      sxy == SumOver(S, [k \in S |-> RatingOf[k] * LengthOf[k]])
      sxx == SumOver(S, [k \in S |-> RatingOf[k] * RatingOf[k]])
      syy == SumOver(S, [k \in S |-> LengthOf[k] * LengthOf[k]])
  IN  [nan |-> FALSE, sxy |-> n * sxy - sx * sy, sxx |-> n * sxx - sx * sx,
       syy |-> n * syy - sy * sy]

\* C12: avg_length_per_rating has exactly the keys 1..5; the value for
\* rating k is the mean letter count of the filtered reviews rated k, or
\* None when there is none; a review rated outside 1..5 is in no row of the
\* table but is part of the sample the Pearson coefficient is computed on.
C12_FiveRowTableAndFullSample ==
  (op = "rating_length_correlation" /\ pc = "done") =>
    /\ response.kind = "stats" =>
         /\ DOMAIN response.avg_length_per_rating = 1..5
         /\ \A k \in 1..5 :
              LET S == { i \in FilteredRows : RatingOf[i] = k }
              IN  response.avg_length_per_rating[k] =
                    (IF S = {} THEN None
                     ELSE Some(Mean(SumOver(S, LengthOf), Cardinality(S))))
    /\ (FilteredRows # {} /\ ~Degenerate) =>
         /\ response.kind = "stats"
         /\ response.pearson_r = FullSamplePearson

\* A review rated 6 was part of a sample with a defined correlation, and
\* the table has a value for another rating only.
C12_Witness ==
  /\ op = "rating_length_correlation"
  /\ pc = "done"
  /\ response.kind = "stats"
  /\ \E i \in FilteredRows : RatingOf[i] = 6
  /\ ~Degenerate
  /\ \E k \in 1..5 : response.avg_length_per_rating[k] # None

(***************************************************************************)
(* The four analytics handlers called with calendar-date bounds.           *)
(* sentiment_trend and the two correlation handlers declare their bounds   *)
(* as Optional[date]; word_frequency declares them as Optional[datetime],  *)
(* so a bound given as a calendar date (YYYY-MM-DD, the form its parameter *)
(* description gives first) is that day's first instant.                   *)
(***************************************************************************)
\* A Query parameter of type datetime given the calendar date day.
ParseDateTime(day) == At(day, MinTime)

\* The bound the handler receives when the caller gives the calendar date.
DateParam(bound) ==
  IF IsNone(bound) THEN None
  ELSE IF op = "word_frequency" THEN Some(ParseDateTime(Val(bound)))
  ELSE bound

\* (start, end) as calendar dates.
DayRanges ==
  { <<None, None>>, <<Some(Dec31), Some(Dec31)>>, <<Some(Dec31), Some(Jan01)>>,
    <<None, Some(Dec31)>>, <<Some(Jan01), None>> }

\* The first and the last instant of 2014-12-31 and the first of 2015-01-01.
DatesDates ==
  { None, Some(At(Dec31, MinTime)), Some(At(Dec31, MaxTime)), Some(At(Jan01, MinTime)) }

DatesInit ==
  /\ NormIdle
  /\ SysIdle
  /\ op \in {"word_frequency", "sentiment_trend", "rating_length_correlation",
             "rating_length_correlation_plot"}
  /\ \E n \in 0..MaxReviews :
       db \in Tables(n, {Some(<<"n","i","c","e">>)}, {Some(5)}, DatesDates, {Some(2)})
  /\ \E range \in DayRanges :
       start_date = DateParam(range[1]) /\ end_date = DateParam(range[2])
  /\ top_k = 1
  /\ interval = "monthly"
  /\ pc = "idle"
  /\ reviews = <<>>
  /\ scanned = 0
  /\ pos_counter = <<>>
  /\ neg_counter = <<>>
  /\ pos_hits = {}
  /\ neg_hits = {}
  /\ response = [kind |-> "none"]

DatesNext == WFNext \/ StatsNext

SpecDates == DatesInit /\ [][DatesNext]_vars

\* The calendar day of a bound of the request.
BoundDay(bound) == IF op = "word_frequency" THEN DayOf(Val(bound)) ELSE Val(bound)

\* Row k of the table is among the selected rows.
Selected(k) == \E j \in 1..Len(reviews) : reviews[j].id = db[k].id

\* C13: in every analytics operation called with calendar-date bounds, a
\* review with a timestamp (and passing the operation's other filters) is
\* selected exactly when its day is not before the start date and not after
\* the end date: the whole end-date day is included.
C13_DateRangeInclusiveOnBothBounds ==
  pc # "idle" =>
    \A k \in 1..Len(db) :
      ( /\ ~IsNone(db[k].review_date)
        /\ ~IsNone(db[k].text) /\ db[k].text # Some(<<>>)
        /\ ~IsNone(db[k].rating)
        /\ ~IsNone(db[k].polarity) )
      => ( Selected(k) <=>
             /\ (IsNone(start_date) \/ DayOf(Val(db[k].review_date)) >= BoundDay(start_date))
             /\ (IsNone(end_date) \/ DayOf(Val(db[k].review_date)) <= BoundDay(end_date)) )

(***************************************************************************)
(* Claims about the weekly and the fallback granularity.                   *)
(***************************************************************************)
\* ISO-8601 week of a day: the year and the week number of the Thursday of
\* its Monday-to-Sunday week.
IsoWeek(day) ==
  LET thursday == day - Weekday(day) + 3
      year == CivilFromDays(thursday).year
  IN  <<year, (thursday - DaysFromCivil(year, 1, 1)) \div 7 + 1>>

\* The days the label of a weekly entry runs from and to.
LabelFrom(label) == DaysFromCivil(label[1], label[2], label[3])

LabelTo(label) == DaysFromCivil(label[4], label[5], label[6])

\* C17: with weekly granularity two reviews share a bucket exactly when
\* their timestamps fall in the same ISO-8601 week: there is one entry and
\* one label per ISO week with a review, the label runs from the Monday to
\* the Sunday of that week, also when the week straddles a year boundary.
C17_WeeklyBucketsAreIsoWeeks ==
  (op = "sentiment_trend" /\ pc = "done" /\ interval = "weekly" /\ response.kind = "png") =>
    LET series == response.series
        day(k) == DayOf(Val(reviews[k].review_date))
        entries(k) == { p \in 1..Len(series) :
                          LabelFrom(series[p].label) <= day(k) /\ day(k) <= LabelTo(series[p].label) }
    IN  /\ \A p \in 1..Len(series) :
             /\ Weekday(LabelFrom(series[p].label)) = 0
             /\ LabelTo(series[p].label) = LabelFrom(series[p].label) + 6
             /\ series[p].bucket = LabelFrom(series[p].label)
             /\ \E k \in 1..Len(reviews) : p \in entries(k)
        /\ \A p, q \in 1..Len(series) : series[p].label = series[q].label => p = q
        /\ \A k \in 1..Len(reviews) : Cardinality(entries(k)) = 1
        /\ \A i, j \in 1..Len(reviews) :
             (entries(i) = entries(j)) <=> (IsoWeek(day(i)) = IsoWeek(day(j)))

\* Reviews of 31 December 2014 and 1 January 2015 share the entry labelled
\* 2014-12-29/2015-01-04.
C17_Witness ==
  /\ op = "sentiment_trend" /\ pc = "done" /\ interval = "weekly"
  /\ Len(reviews) = 2
  /\ DayOf(Val(reviews[1].review_date)) = Dec31
  /\ DayOf(Val(reviews[2].review_date)) = Jan01
  /\ response.kind = "png"
  /\ Len(response.series) = 1
  /\ response.series[1].label = <<2014, 12, 29, 2015, 1, 4>>

\* The calendar month of row k of the table.
MonthOf(k) ==
  LET c == CivilFromDays(DayOf(Val(db[k].review_date))) IN <<c.year, c.month>>

\* C18: an interval other than "daily" and "weekly", one outside
\* {daily, weekly, monthly} included, is never rejected: the filtered
\* reviews are aggregated by calendar month, one entry per month in
\* chronological order, each the mean of the month's polarities.
C18_UnknownIntervalAggregatesByMonth ==
  ( /\ op = "sentiment_trend" /\ pc = "done"
    /\ interval \notin {"daily", "weekly"}
    /\ FilteredRows # {} )
  => /\ response.kind = "png"
     /\ LET series == response.series
            months == { MonthOf(k) : k \in FilteredRows }
            pol == [k \in 1..Len(db) |-> IF IsNone(db[k].polarity) THEN 0 ELSE Val(db[k].polarity)]
        IN  /\ Len(series) = Cardinality(months)
            /\ { series[p].label : p \in 1..Len(series) } = months
            /\ \A p, q \in 1..Len(series) : p < q => series[p].bucket < series[q].bucket
            /\ \A p \in 1..Len(series) :
                 LET S == { k \in FilteredRows : MonthOf(k) = series[p].label }
                 IN  /\ CivilFromDays(series[p].bucket).day = 1
                     /\ <<CivilFromDays(series[p].bucket).year,
                          CivilFromDays(series[p].bucket).month>> = series[p].label
                     /\ series[p].polarity.num * Cardinality(S) =
                          series[p].polarity.den * SumOver(S, pol)

\* interval = "yearly" gave one entry for December 2014 and one for January
\* 2015.
C18_Witness ==
  /\ op = "sentiment_trend" /\ pc = "done"
  /\ interval = "yearly"
  /\ response.kind = "png"
  /\ Len(response.series) = 2
  /\ response.series[1].label = <<2014, 12>>
  /\ response.series[2].label = <<2015, 1>>

(***************************************************************************)
(* Concurrent analytics requests.  The handlers are plain "def" functions, *)
(* which the framework runs in worker threads, so the calls of two         *)
(* requests interleave.  Counters, hit sets, frames and the Figure and     *)
(* Axes objects are locals of one call; matplotlib.pyplot keeps the        *)
(* registry of open figures, whose last entry is the current figure, in    *)
(* module state shared by every thread.  A figure carries the number of    *)
(* the call that opened it.                                                *)
(***************************************************************************)
MaxCalls == 2

handlerVars == <<pc, reviews, wfVars, response>>

AnalyticsOps ==
  { "word_frequency", "sentiment_trend", "rating_length_correlation",
    "rating_length_correlation_plot" }

\* The loop "for r in reviews" of word_frequency over locals only.
RECURSIVE ScanReviews(_, _)
ScanReviews(rs, acc) ==
  IF rs = <<>> THEN acc
  ELSE LET r == Head(rs)
           ws == extract_clean_words(IF IsNone(r.text) THEN Some(<<>>) ELSE r.text)
           after == ScanWords(ws, [pos |-> acc.pos, neg |-> acc.neg,
                                   found_pos |-> FALSE, found_neg |-> FALSE])
       IN  ScanReviews(Tail(rs),
             IF ws = <<>> THEN acc
             ELSE [pos |-> after.pos,
                   neg |-> after.neg,
                   pos_hits |-> IF after.found_pos THEN acc.pos_hits \cup {r.id} ELSE acc.pos_hits,
                   neg_hits |-> IF after.found_neg THEN acc.neg_hits \cup {r.id} ELSE acc.neg_hits])

WordFrequencyResponse(rs) ==
  LET acc == ScanReviews(rs, [pos |-> <<>>, neg |-> <<>>, pos_hits |-> {}, neg_hits |-> {}])
  IN  [kind |-> "word_frequency",
       total_reviews_scanned |-> Len(rs),
       reviews_with_positive_words |-> Cardinality(acc.pos_hits),
       reviews_with_negative_words |-> Cardinality(acc.neg_hits),
       top_k |-> top_k,
       positive_top_words |-> most_common(acc.pos, top_k),
       negative_top_words |-> most_common(acc.neg, top_k)]

\* What the handler of op has computed before it touches pyplot.
Computed(o) ==
  IF o = "word_frequency" THEN WordFrequencyResponse(SelectSeq(db, WFSelect))
  ELSE IF o = "sentiment_trend" THEN TrendResponse(SelectSeq(db, TrendSelect))
  ELSE IF o = "rating_length_correlation" THEN CorrResponse(SelectSeq(db, CorrSelect))
  ELSE PlotResponse(SelectSeq(db, CorrSelect))

\* The query and the computation on locals, up to the return of the JSON
\* handlers and of the error paths, or up to plt.subplots.
Compute(i) ==
  /\ calls[i].pc = "start"
  /\ LET out == Computed(calls[i].op)
     IN  calls' = [calls EXCEPT ![i].out = out,
                                ![i].pc = IF out.kind = "png" THEN "computed" ELSE "done"]
  /\ UNCHANGED <<normVars, reqVars, handlerVars, users, next_id, figs, batch>>

\* fig, ax = plt.subplots(...): a new figure, registered as the current one.
Subplots(i) ==
  /\ calls[i].pc = "computed"
  /\ figs' = [figs EXCEPT !.open = Append(@, i)]
  /\ calls' = [calls EXCEPT ![i].pc = "drawn"]
  /\ UNCHANGED <<normVars, reqVars, handlerVars, users, next_id, batch>>

\* plt.gcf(): the current figure.
Gcf == figs.open[Len(figs.open)]

\* plt.xticks(rotation=45): rotates the tick labels of the current figure.
Xticks(i) ==
  /\ calls[i].op = "sentiment_trend"
  /\ calls[i].pc = "drawn"
  /\ figs' = [figs EXCEPT !.rotated = @ \cup {Gcf}]
  /\ calls' = [calls EXCEPT ![i].pc = "ticked"]
  /\ UNCHANGED <<normVars, reqVars, handlerVars, users, next_id, batch>>

\* The image of figure i: what was drawn on its axes and how its tick
\* labels stand.
Render(i) ==
  [kind |-> "png", drawn |-> calls[i].out,
   xtick_rotation |-> IF i \in figs.rotated THEN 45 ELSE 0]

\* fig.savefig(buf, format="png", ...).
Savefig(i) ==
  /\ calls[i].pc = (IF calls[i].op = "sentiment_trend" THEN "ticked" ELSE "drawn")
  /\ calls' = [calls EXCEPT ![i].out = Render(i), ![i].pc = "saved"]
  /\ UNCHANGED <<normVars, reqVars, handlerVars, users, next_id, figs, batch>>

\* plt.close(fig), and the return of the image.
Close(i) ==
  /\ calls[i].pc = "saved"
  /\ figs' = [open |-> SelectSeq(figs.open, LAMBDA f : f # i), rotated |-> figs.rotated \ {i}]
  /\ calls' = [calls EXCEPT ![i].pc = "done"]
  /\ UNCHANGED <<normVars, reqVars, handlerVars, users, next_id, batch>>

\* An empty table, and one whose two reviews differ in every column.
PlotTables ==
  { <<>>,
    << Review(1, Some(<<"n","i","c","e">>), Some(5), Some(At(Jan01, MinTime)), Some(2)),
       Review(2, Some(<<"b","a","d"," ","1","2">>), Some(1), Some(At(Jan05, MinTime)), Some(8)) >> }

PlotInit ==
  /\ NormIdle
  /\ db \in PlotTables
  /\ op = "none"
  /\ start_date = None
  /\ end_date = None
  /\ top_k = 20
  /\ interval = "monthly"
  /\ pc = "idle"
  /\ reviews = <<>>
  /\ scanned = 0
  /\ pos_counter = <<>>
  /\ neg_counter = <<>>
  /\ pos_hits = {}
  /\ neg_hits = {}
  /\ response = [kind |-> "none"]
  /\ users = {}
  /\ next_id = [users |-> 1, reviews |-> 1]
  /\ calls \in [1..MaxCalls -> { [op |-> o, pc |-> "start", out |-> [kind |-> "none"]] :
                                   o \in AnalyticsOps }]
  /\ figs = [open |-> <<>>, rotated |-> {}]
  /\ batch = [pc |-> "idle"]

PlotNext ==
  \E i \in 1..MaxCalls : Compute(i) \/ Subplots(i) \/ Xticks(i) \/ Savefig(i) \/ Close(i)

SpecPlot == PlotInit /\ [][PlotNext]_vars

\* What a call of op returns when no other call runs.
Alone(o) ==
  LET out == Computed(o)
  IN  IF out.kind # "png" THEN out
      ELSE [kind |-> "png", drawn |-> out,
            xtick_rotation |-> IF o = "sentiment_trend" THEN 45 ELSE 0]

\* C14: whatever the interleaving of concurrent analytics calls, each call
\* returns what it returns when run alone.
C14_ConcurrentCallsReturnWhatTheyReturnAlone ==
  \A i \in DOMAIN calls :
    (calls[i].op \in AnalyticsOps /\ calls[i].pc = "done") => calls[i].out = Alone(calls[i].op)

(***************************************************************************)
(* The user and review endpoints (app/users/router.py,                     *)
(* app/feedback/router.py) served concurrently.  Every request has its own *)
(* database session; a step of a call is one round trip to the database:   *)
(* the query the handler starts with, then its writes with their commit.   *)
(* Of a review row only the key and user_id are kept; the product a review *)
(* names is taken to exist.                                                *)
(***************************************************************************)
MaxKeys == 2

Usernames == { "a", "b" }

paramVars == <<op, start_date, end_date, top_k, interval>>

\* The requests a worker thread may be serving.
Requests ==
  { [op |-> "create_user", username |-> n, key |-> 0] : n \in Usernames }
  \cup { [op |-> o, username |-> "", key |-> k] :
           o \in {"create_review", "delete_review", "delete_user"}, k \in 1..MaxKeys }

\* The handler raised HTTPException(status) or returned (200).
Finish(i, status) == [calls EXCEPT ![i].pc = "done", ![i].status = status]

\* create_user: existing = db.query(User).filter(username == ...).first()
CreateUserCheck(i) ==
  /\ calls[i].op = "create_user"
  /\ calls[i].pc = "start"
  /\ calls' = IF \E u \in users : u.username = calls[i].username
                THEN Finish(i, 400)
                ELSE [calls EXCEPT ![i].pc = "checked"]
  /\ UNCHANGED <<normVars, paramVars, handlerVars, db, users, next_id, figs, batch>>

\* create_user: db.add(user); db.commit().  users.username carries no
\* unique constraint, so the INSERT always succeeds.
CreateUserCommit(i) ==
  /\ calls[i].op = "create_user"
  /\ calls[i].pc = "checked"
  /\ users' = users \cup { [id |-> next_id.users, username |-> calls[i].username] }
  /\ next_id' = [next_id EXCEPT !.users = @ + 1]
  /\ calls' = Finish(i, 200)
  /\ UNCHANGED <<normVars, paramVars, handlerVars, db, figs, batch>>

\* reviews.user_id = ForeignKey("users.id"): the parent row exists.
ForeignKey_NotEnforced(uid, us) == TRUE

ForeignKey(uid, us) == \E u \in us : u.id = uid

\* create_review: user = db.query(User).filter(User.id == ...).first()
CreateReviewCheck(i) ==
  /\ calls[i].op = "create_review"
  /\ calls[i].pc = "start"
  /\ calls' = IF \E u \in users : u.id = calls[i].key
                THEN [calls EXCEPT ![i].pc = "checked"]
                ELSE Finish(i, 404)
  /\ UNCHANGED <<normVars, paramVars, handlerVars, db, users, next_id, figs, batch>>

\* create_review: db.add(review); db.commit().  The INSERT fails with an
\* IntegrityError, which the handler does not catch, when the user row is
\* gone.
CreateReviewCommit(i) ==
  /\ calls[i].op = "create_review"
  /\ calls[i].pc = "checked"
  /\ IF ForeignKey(calls[i].key, users)
       THEN /\ db' = Append(db, [id |-> next_id.reviews, user_id |-> calls[i].key])
            /\ next_id' = [next_id EXCEPT !.reviews = @ + 1]
            /\ calls' = Finish(i, 200)
       ELSE /\ calls' = Finish(i, 500)
            /\ UNCHANGED <<db, next_id>>
  /\ UNCHANGED <<normVars, paramVars, handlerVars, users, figs, batch>>

\* delete_review: review = db.query(Review).filter(Review.id == ...).first()
DeleteReviewGet(i) ==
  /\ calls[i].op = "delete_review"
  /\ calls[i].pc = "start"
  /\ calls' = IF \E k \in 1..Len(db) : db[k].id = calls[i].key
                THEN [calls EXCEPT ![i].pc = "checked"]
                ELSE Finish(i, 404)
  /\ UNCHANGED <<normVars, paramVars, handlerVars, db, users, next_id, figs, batch>>

\* delete_review: db.delete(review); db.commit()
DeleteReviewCommit(i) ==
  /\ calls[i].op = "delete_review"
  /\ calls[i].pc = "checked"
  /\ db' = SelectSeq(db, LAMBDA r : r.id # calls[i].key)
  /\ calls' = Finish(i, 200)
  /\ UNCHANGED <<normVars, paramVars, handlerVars, users, next_id, figs, batch>>

\* delete_user: user = db.query(User).filter(User.id == user_id).first()
DeleteUserGet(i) ==
  /\ calls[i].op = "delete_user"
  /\ calls[i].pc = "start"
  /\ calls' = IF \E u \in users : u.id = calls[i].key
                THEN [calls EXCEPT ![i].pc = "checked"]
                ELSE Finish(i, 404)
  /\ UNCHANGED <<normVars, paramVars, handlerVars, db, users, next_id, figs, batch>>

\* The bulk delete that leaves the user's first review.
DeleteUserRows_KeepFirst(rows, uid) ==
  LET mine == SelectSeq(rows, LAMBDA r : r.user_id = uid)
  IN  SelectSeq(rows, LAMBDA r : r.user_id # uid \/ (mine # <<>> /\ r.id = mine[1].id))

\* db.query(Review).filter(Review.user_id == user_id).delete()
DeleteUserRows(rows, uid) == SelectSeq(rows, LAMBDA r : r.user_id # uid)

\* delete_user: the bulk delete of the user's reviews, db.delete(user) and
\* db.commit(), one transaction.
DeleteUserCommit(i) ==
  /\ calls[i].op = "delete_user"
  /\ calls[i].pc = "checked"
  /\ db' = DeleteUserRows(db, calls[i].key)
  /\ users' = { u \in users : u.id # calls[i].key }
  /\ calls' = Finish(i, 200)
  /\ UNCHANGED <<normVars, paramVars, handlerVars, next_id, figs, batch>>

\* The tables before the requests arrive: empty, one user without and with
\* a review, two users with a review each.
CrudTables ==
  { [users |-> {}, db |-> <<>>],
    [users |-> {[id |-> 1, username |-> "a"]}, db |-> <<>>],
    [users |-> {[id |-> 1, username |-> "a"]}, db |-> <<[id |-> 1, user_id |-> 1]>>],
    [users |-> {[id |-> 1, username |-> "a"], [id |-> 2, username |-> "b"]},
     db |-> <<[id |-> 1, user_id |-> 1], [id |-> 2, user_id |-> 2]>>] }

CrudInit ==
  /\ NormIdle
  /\ \E t \in CrudTables :
       /\ users = t.users
       /\ db = t.db
       /\ next_id = [users |-> Cardinality(t.users) + 1, reviews |-> Len(t.db) + 1]
  /\ op = "none"
  /\ start_date = None
  /\ end_date = None
  /\ top_k = 20
  /\ interval = "monthly"
  /\ pc = "idle"
  /\ reviews = <<>>
  /\ scanned = 0
  /\ pos_counter = <<>>
  /\ neg_counter = <<>>
  /\ pos_hits = {}
  /\ neg_hits = {}
  /\ response = [kind |-> "none"]
  /\ calls \in [1..MaxCalls -> { [op |-> req.op, username |-> req.username, key |-> req.key,
                                   pc |-> "start", status |-> 0] : req \in Requests }]
  /\ figs = [open |-> <<>>, rotated |-> {}]
  /\ batch = [pc |-> "idle"]

CrudNext ==
  \E i \in 1..MaxCalls :
    \/ CreateUserCheck(i) \/ CreateUserCommit(i)
    \/ CreateReviewCheck(i) \/ CreateReviewCommit(i)
    \/ DeleteReviewGet(i) \/ DeleteReviewCommit(i)
    \/ DeleteUserGet(i) \/ DeleteUserCommit(i)

SpecCrud == CrudInit /\ [][CrudNext]_vars

\* C15: whatever the interleaving of create_user calls, no two stored users
\* have the same username.
C15_NoTwoUsersShareAUsername ==
  \A u, v \in users : u.username = v.username => u.id = v.id

\* C16: delete_user on a stored user removes, in the one step of its commit,
\* that user and exactly the reviews whose user_id is the user's, leaving
\* every other user and review as it was; on a user_id that is not stored
\* it reports 404 and changes nothing.
C16_DeleteUserRemovesUserAndOwnReviewsOnly ==
  [][\A i \in DOMAIN calls :
       (calls[i].op = "delete_user" /\ calls'[i] # calls[i]) =>
         LET uid == calls[i].key
             stored == \E u \in users : u.id = uid
         IN  /\ (calls[i].pc = "start" /\ ~stored) =>
                  /\ calls'[i].pc = "done" /\ calls'[i].status = 404
                  /\ users' = users /\ db' = db
             /\ (calls[i].pc = "start" /\ stored) =>
                  /\ calls'[i].pc = "checked"
                  /\ users' = users /\ db' = db
             /\ calls[i].pc = "checked" =>
                  /\ calls'[i].pc = "done" /\ calls'[i].status = 200
                  /\ users' = { u \in users : u.id # uid }
                  /\ \A k \in 1..Len(db') : db'[k].user_id # uid
                  /\ \A k \in 1..Len(db) :
                       db[k].user_id # uid => \E j \in 1..Len(db') : db'[j] = db[k]
                  /\ \A j \in 1..Len(db') : \E k \in 1..Len(db) : db[k] = db'[j]
                  /\ Len(db') <= Len(db)]_vars

\* delete_user(1) has removed user 1 and review 1 of the two users with one
\* review each, and user 2 and review 2 are left.
C16_Witness ==
  /\ \E i \in DOMAIN calls :
       /\ calls[i].op = "delete_user" /\ calls[i].key = 1
       /\ calls[i].pc = "done" /\ calls[i].status = 200
  /\ users = { [id |-> 2, username |-> "b"] }
  /\ db = << [id |-> 2, user_id |-> 2] >>

\* C20: in every state reachable by interleaved steps of create_user,
\* create_review, delete_review and delete_user every stored review's
\* user_id is the id of a stored user; a create_review whose user is not
\* stored when it looks reports 404 and stores no review.
C20_EveryReviewRefersToAStoredUser ==
  /\ [](\A k \in 1..Len(db) : \E u \in users : u.id = db[k].user_id)
  /\ [][\A i \in DOMAIN calls :
          ( /\ calls[i].op = "create_review" /\ calls[i].pc = "start"
            /\ calls'[i] # calls[i]
            /\ ~\E u \in users : u.id = calls[i].key )
          => /\ calls'[i].pc = "done" /\ calls'[i].status = 404
             /\ db' = db]_vars

\* A create_review that found its user lost it to a delete_user before its
\* INSERT, which the foreign key refused.
C20_Witness ==
  \E i, j \in DOMAIN calls :
    /\ calls[i].op = "create_review" /\ calls[i].pc = "done" /\ calls[i].status = 500
    /\ calls[j].op = "delete_user" /\ calls[j].pc = "done" /\ calls[j].status = 200
    /\ calls[i].key = calls[j].key
    /\ \A k \in 1..Len(db) : db[k].user_id # calls[i].key

(***************************************************************************)
(* The batch labelling script (app/sentiment_analysis/run_batch.py).  Of a *)
(* review row the key, the text and the three sentiment columns are kept;  *)
(* polarity and subjectivity are in tenths.  The script commits every      *)
(* BATCH_COMMIT reviews; the source's value is 500, and the model takes a  *)
(* small one so that a table of MaxBatchRows rows has a commit inside the  *)
(* loop and reviews after it.  main is run MaxRuns times in a row.         *)
(***************************************************************************)
MaxBatchRows == 3

MaxRuns == 2

BATCH_COMMIT == 2

\* The results analyze_sentiment may give for a text: a label, a score and
\* a sarcasm flag, all present.
analyze_sentiment(t) ==
  { [label |-> "positive", score |-> 8, is_sarcastic |-> FALSE],
    [label |-> "negative", score |-> 2, is_sarcastic |-> TRUE] }

\* .filter(text.isnot(None)).filter(text != "").filter(sentiment_label.is_(None))
BatchSelect(r) ==
  /\ ~IsNone(r.text)
  /\ Val(r.text) # <<>>
  /\ IsNone(r.sentiment_label)

\* db.commit(): the pending attribute changes of the session reach the table.
Commit(table, dirty) ==
  [k \in 1..Len(table) |->
     IF \E u \in dirty : u.id = table[k].id
       THEN LET u == CHOOSE u \in dirty : u.id = table[k].id
            IN  [table[k] EXCEPT !.sentiment_label = Some(u.sentiment_label),
                                 !.polarity = Some(u.polarity),
                                 !.subjectivity = Some(u.subjectivity)]
       ELSE table[k]]

\* The script without its commit after the loop.
FinalCommit_Dropped(table, dirty) == table

\* The commit after the loop ("Commit sisa yang belum ke-commit").
FinalCommit(table, dirty) == Commit(table, dirty)

\* main() up to the loop: the session, the query, total and processed.
BatchMain ==
  /\ batch.pc \in {"idle", "done"}
  /\ batch.run < MaxRuns
  /\ LET q == SelectSeq(db, BatchSelect)
     IN  batch' = [pc |-> "loop",
                   run |-> batch.run + 1,
                   queue |-> [k \in 1..Len(q) |-> q[k].id],
                   session |-> {},
                   total |-> Len(q),
                   processed |-> 0]
  /\ UNCHANGED <<normVars, reqVars, handlerVars, users, next_id, calls, figs>>

\* One iteration of "for review in q", its commit included.
BatchAnalyze ==
  /\ batch.pc = "loop"
  /\ batch.queue # <<>>
  /\ LET review == CHOOSE r \in { db[k] : k \in 1..Len(db) } : r.id = Head(batch.queue)
     IN  \E result \in analyze_sentiment(review.text) :
           LET update == [id |-> review.id,
                          sentiment_label |-> result.label,
                          polarity |-> result.score,
                          subjectivity |-> IF result.is_sarcastic THEN 10 ELSE 0]
               dirty == batch.session \cup {update}
               processed == batch.processed + 1
           IN  IF processed % BATCH_COMMIT = 0
                 THEN /\ db' = Commit(db, dirty)
                      /\ batch' = [batch EXCEPT !.queue = Tail(@), !.processed = processed,
                                                !.session = {}]
                 ELSE /\ db' = db
                      /\ batch' = [batch EXCEPT !.queue = Tail(@), !.processed = processed,
                                                !.session = dirty]
  /\ UNCHANGED <<normVars, paramVars, handlerVars, users, next_id, calls, figs>>

\* After the loop: db.commit(); db.close().
BatchFinish ==
  /\ batch.pc = "loop"
  /\ batch.queue = <<>>
  /\ db' = FinalCommit(db, batch.session)
  /\ batch' = [batch EXCEPT !.session = {}, !.pc = "done"]
  /\ UNCHANGED <<normVars, paramVars, handlerVars, users, next_id, calls, figs>>

\* A row as import_data.py stores it (no sentiment columns) or as
\* create_review stores it (all three set).
BatchRowKinds ==
  { [text |-> t, labelled |-> l] :
      t \in { None, Some(<<>>), Some(<<"n","i","c","e">>) }, l \in BOOLEAN }

BatchTables(n) ==
  { [k \in 1..n |->
       [id |-> k,
        text |-> f[k].text,
        sentiment_label |-> IF f[k].labelled THEN Some("neutral") ELSE None,
        polarity |-> IF f[k].labelled THEN Some(5) ELSE None,
        subjectivity |-> IF f[k].labelled THEN Some(0) ELSE None]] :
      f \in [1..n -> BatchRowKinds] }

BatchInit ==
  /\ NormIdle
  /\ \E n \in 0..MaxBatchRows : db \in BatchTables(n)
  /\ op = "none"
  /\ start_date = None
  /\ end_date = None
  /\ top_k = 20
  /\ interval = "monthly"
  /\ pc = "idle"
  /\ reviews = <<>>
  /\ scanned = 0
  /\ pos_counter = <<>>
  /\ neg_counter = <<>>
  /\ pos_hits = {}
  /\ neg_hits = {}
  /\ response = [kind |-> "none"]
  /\ users = {}
  /\ next_id = [users |-> 1, reviews |-> 1]
  /\ calls = <<>>
  /\ figs = [open |-> <<>>, rotated |-> {}]
  /\ batch = [pc |-> "idle", run |-> 0, queue |-> <<>>, session |-> {}, total |-> 0,
              processed |-> 0]

BatchNext == BatchMain \/ BatchAnalyze \/ BatchFinish

\* The script is one sequential process that is never starved.
SpecBatch == BatchInit /\ [][BatchNext]_vars /\ WF_vars(BatchNext)

\* C19: every run of main terminates; when it has finished nothing is left
\* uncommitted and every review with a non-empty text has a label, a
\* polarity and a subjectivity of 1.0 or 0.0; a review that has a label is
\* never changed; every run after the first processes 0 reviews.
C19_BatchTerminatesLabelsAllCommitsAll ==
  /\ (batch.pc = "loop") ~> (batch.pc = "done")
  /\ [](batch.pc = "done" =>
          /\ batch.session = {}
          /\ batch.processed = batch.total
          /\ \A k \in 1..Len(db) :
               (~IsNone(db[k].text) /\ Val(db[k].text) # <<>>) =>
                 /\ ~IsNone(db[k].sentiment_label)
                 /\ ~IsNone(db[k].polarity)
                 /\ db[k].subjectivity \in {Some(0), Some(10)}
          /\ batch.run > 1 => batch.processed = 0)
  /\ [][\A k \in 1..Len(db) : ~IsNone(db[k].sentiment_label) => db'[k] = db[k]]_vars

\* A second run found nothing to do after the first had labelled more
\* reviews than one commit interval holds.
C19_Witness ==
  /\ batch.pc = "done"
  /\ batch.run = 2
  /\ batch.processed = 0
  /\ Cardinality({ k \in 1..Len(db) :
                     db[k].sentiment_label \in {Some("positive"), Some("negative")} })
       > BATCH_COMMIT

=============================================================================
